---- MODULE Spec2Model ----
(***************************************************************************)
(* A model of the bounded tool-orchestration loop of the RAG chatbot:      *)
(* AIGenerator.generate_response (backend/ai_generator.py), the mock and   *)
(* registry tool managers it dispatches to, and the query coordinator      *)
(* (RAGSystem.query) that harvests and resets the sources around it.       *)
(*                                                                         *)
(* Python values whose kind matters to the code (None, str, list) are      *)
(* records tagged with "py"; a str is the sequence of the pieces it was    *)
(* concatenated from, so that an f-string is modelled by what it builds.   *)
(***************************************************************************)
EXTENDS Integers, Sequences, FiniteSets, TLC

VARIABLES
    base_params,    \* AIGenerator.base_params (shared by all calls)
    pc,             \* per process: position inside generate_response
    args,           \* per process: the arguments of the running generate_response
    system_content, \* per process: local system_content
    messages,       \* per process: local messages list
    api_params,     \* per process: local api_params dict
    round,          \* per process: the loop index of `for _ in range(MAX_ROUNDS)`
    response,       \* per process: local response (or final_response)
    blockIdx,       \* per process: position of `for block in response.content`
    tool_results,   \* per process: local tool_results list
    outcome,        \* per process: how generate_response ended
    calls,          \* per process: the endpoint calls made, in order (call_args_list)
    dispatched,     \* per process: the execute_tool calls made, in order
    started,        \* per process: number of runs (direct calls or queries) started
    last_sources,   \* Tool Registry: each registered tool's recorded sources
    sessions,       \* Session Store: each session's exchanges
    qpc,            \* per process: position inside the coordinator's query
    qargs,          \* per process: the arguments of the running query
    qanswer,        \* per process: the Orchestrator's answer, once it returned
    qsources,       \* per process: the sources the query collected
    qresult,        \* per process: how the query ended
    recorded,       \* per process: what this query's own tool executions recorded
    executed,       \* per process: the registry's tool executions of the running
                    \* Orchestrator (or since the last clear, for a direct caller)
    qcalls,         \* per process: the calls the running query made, in order
    api             \* per process: the requests the query endpoint handled, in order

genVars == <<pc, args, system_content, messages, api_params, round, response,
             blockIdx, tool_results, outcome, calls, dispatched, started>>
regVars == <<last_sources, sessions>>
queryVars == <<qpc, qargs, qanswer, qsources, qresult, recorded, executed, qcalls>>
vars == <<base_params, genVars, regVars, queryVars, api>>

Procs == {"A", "B"}

----------------------------------------------------------------------------
(* Python values *)

PyNone == [py |-> "None"]
Str(pieces) == [py |-> "str", s |-> pieces]
List(xs) == [py |-> "list", items |-> xs]
MockManager == [py |-> "object", cls |-> "MagicMock"]
Registry == [py |-> "object", cls |-> "ToolManager"]

\* Python truthiness, as used by `if tools:`, `if conversation_history`, `not tool_manager`
Truthy(v) ==
    CASE v.py = "None" -> FALSE
      [] v.py = "str" -> v.s # <<>>
      [] v.py = "list" -> v.items # <<>>
      [] OTHER -> TRUE

Elems(xs) == { xs[i] : i \in DOMAIN xs }
Concat(a, b) == Str(a.s \o b.s)
Contains(a, piece) == \E i \in DOMAIN a.s : a.s[i] = piece

----------------------------------------------------------------------------
(* Program constants *)

MAX_ROUNDS == 2
SYSTEM_PROMPT == Str(<<"SYSTEM_PROMPT">>)
BaseParams == [model |-> "claude-test-model", temperature |-> 0, max_tokens |-> 800]

\* (mutant) range(MAX_ROUNDS + 1): one tool round too many
LoopRangeOneMore == 0 .. MAX_ROUNDS

\* `for _ in range(self.MAX_ROUNDS)`: the values the loop index takes
LoopRange == 0 .. (MAX_ROUNDS - 1)

----------------------------------------------------------------------------
(* Bounds and the sets the environment draws from *)

MaxBlocks == 2      \* content blocks per endpoint response
MaxRuns == 2        \* runs one process starts, one after another
MaxExecs == 2       \* direct tool executions between two clears of the registry
MaxRequests == 2    \* requests one client sends to the query endpoint

ToolDefs == <<[name |-> "search_course_content"], [name |-> "get_course_outline"]>>

Args(q, h, t, tm) ==
    [query |-> q, conversation_history |-> h, tools |-> t, tool_manager |-> tm]

\* the argument lists a direct caller passes: those of the unit tests, and the
\* falsy-but-not-None values of each optional argument
DirectArgs ==
    { Args("q1", PyNone, PyNone, PyNone),
      Args("q2", Str(<<"User: Hi\nAssistant: Hello!">>), PyNone, PyNone),
      Args("q1", PyNone, List(ToolDefs), PyNone),
      Args("q1", PyNone, List(ToolDefs), MockManager),
      Args("q2", Str(<<"User: Hi\nAssistant: Hello!">>), List(ToolDefs), MockManager),
      Args("q2", Str(<<>>), List(<<>>), PyNone),
      Args("q1", PyNone, PyNone, MockManager) }

TextBlock(t) == [type |-> "text", text |-> Str(<<t>>)]
ToolUseBlock(n, i, id) == [type |-> "tool_use", name |-> n, input |-> i, id |-> id]

SearchUse == ToolUseBlock("search_course_content", [query |-> "RAG basics"], "toolu_001")
OutlineUse == ToolUseBlock("get_course_outline", [course_name |-> "Intro to RAG"], "toolu_002")
UnknownUse == ToolUseBlock("no_such_tool", [query |-> "RAG basics"], "toolu_003")

\* content searches with a course filter, a lesson filter, and both
SearchInCourse ==
    ToolUseBlock("search_course_content",
                 [query |-> "topic", course_name |-> "Intro to RAG"], "toolu_004")
SearchInLesson ==
    ToolUseBlock("search_course_content",
                 [query |-> "content", lesson_number |-> 3], "toolu_005")
SearchInBoth ==
    ToolUseBlock("search_course_content",
                 [query |-> "content", course_name |-> "MCP Course", lesson_number |-> 3],
                 "toolu_006")

Blocks == { TextBlock("a1"), SearchUse, OutlineUse }

\* the sequences of at most n distinct elements of S (an endpoint response
\* never holds the same tool_use id twice)
SeqsUpTo(S, n) ==
    { c \in UNION { [1..k -> S] : k \in 0..n } :
        \A i, j \in DOMAIN c : c[i] = c[j] => i = j }

StopReasons == {"end_turn", "tool_use", "max_tokens"}

\* what client.messages.create can give back: a response, or an exception
Responses ==
    { [stop_reason |-> sr, content |-> List(c)] :
        sr \in StopReasons, c \in SeqsUpTo(Blocks, MaxBlocks) }
EndpointError == [raised |-> "APIError"]
Replies == Responses \cup {EndpointError}

\* what a MagicMock tool manager's execute_tool can do: return a string or raise
MockOutcomes ==
    { [kind |-> "return", value |-> Str(<<"tool output">>)],
      [kind |-> "raise", msg |-> "db down"] }

----------------------------------------------------------------------------
(* generate_response, line by line *)

\* (mutant) the history is left out of the system content
SystemContentNoHistory(conversation_history) == SYSTEM_PROMPT

SystemContent(conversation_history) ==
    IF Truthy(conversation_history)
    THEN Str(SYSTEM_PROMPT.s \o <<"\n\nPrevious conversation:\n">> \o conversation_history.s)
    ELSE SYSTEM_PROMPT

\* (mutant) the messages are kept on the generator, one list for all its calls
InitialMessagesOnInstance(query) ==
    messages["A"] \o messages["B"] \o << [role |-> "user", content |-> Str(<<query>>)] >>

\* (mutant) the conversation so far is sent as a message ahead of the question
InitialMessagesWithHistory(query) ==
    << [role |-> "user", content |-> Str(<<"Previous conversation:">>)],
       [role |-> "user", content |-> Str(<<query>>)] >>

InitialMessages(query) == << [role |-> "user", content |-> Str(<<query>>)] >>

\* (mutant) tools and tool_choice are added whatever `tools` is
ApiParamsAlwaysTools(bp, msgs, sys, tools) ==
    [tools |-> tools, tool_choice |-> [type |-> "auto"]]
        @@ [messages |-> msgs, system |-> sys] @@ bp

ApiParams(bp, msgs, sys, tools) ==
    LET base == [messages |-> msgs, system |-> sys] @@ bp
    IN  IF Truthy(tools)
        THEN [tools |-> tools, tool_choice |-> [type |-> "auto"]] @@ base
        ELSE base

\* (mutant) the forced final call reuses api_params, tools included
FinalParamsKeepTools(bp, msgs, sys, params) == [messages |-> msgs, system |-> sys] @@ params

FinalParams(bp, msgs, sys, params) == [messages |-> msgs, system |-> sys] @@ bp

\* (mutant) the branch looks at the stop reason only
ShouldReturnOnStopOnly(resp, tool_manager) == resp.stop_reason # "tool_use"

\* `if response.stop_reason != "tool_use" or not tool_manager`
ShouldReturn(resp, tool_manager) ==
    resp.stop_reason # "tool_use" \/ ~Truthy(tool_manager)

\* (mutant) only the blocks of the content-search tool count as invocations
IsSearchToolUse(block) ==
    block.type = "tool_use" /\ block.name = "search_course_content"

\* `if block.type == "tool_use"`
IsToolUse(block) == block.type = "tool_use"

\* `response.content[0].text`: IndexError on an empty list, AttributeError on
\* a block that has no text attribute (a ToolUseBlock)
ExtractText(resp) ==
    IF resp.content.items = <<>>
    THEN [kind |-> "raised", exc |-> "IndexError", from |-> "content"]
    ELSE IF "text" \in DOMAIN resp.content.items[1]
         THEN [kind |-> "returned", value |-> resp.content.items[1].text]
         ELSE [kind |-> "raised", exc |-> "AttributeError", from |-> "content"]

\* (mutant) no try/except around execute_tool: the exception propagates
CatchNothing(out) ==
    IF out.kind = "return"
    THEN [caught |-> TRUE, result |-> out.value]
    ELSE [caught |-> FALSE, result |-> PyNone]

\* try: result = execute_tool(...)  except Exception as e: result = f"Tool execution error: {e}"
CatchResult(out) ==
    IF out.kind = "return"
    THEN [caught |-> TRUE, result |-> out.value]
    ELSE [caught |-> TRUE, result |-> Str(<<"Tool execution error: ", out.msg>>)]

ToolResultBlock(block, result) ==
    [type |-> "tool_result", tool_use_id |-> block.id, content |-> result]

\* (mutant) results are pushed at the front: the reverse of the invocation order
AppendResultFront(results, item) == <<item>> \o results

AppendResult(results, item) == Append(results, item)

\* (mutant) the parameters of the next round are rebuilt without the tools
NextParamsDropTools(params, msgs) ==
    [k \in DOMAIN params \ {"tools", "tool_choice"} |->
        IF k = "messages" THEN msgs ELSE params[k]]

\* (mutant) the next request is sent with the messages of the previous one
NextParamsStale(params, msgs) == params

\* `api_params["messages"] = messages`: every other key stays as it was
NextParams(params, msgs) == [params EXCEPT !.messages = msgs]

\* one entry of the endpoint's call list: the keyword arguments, and its reply
CallEntry(req, r) ==
    [request |-> req,
     failed |-> "raised" \in DOMAIN r,
     stop |-> IF "raised" \in DOMAIN r THEN "raised" ELSE r.stop_reason,
     content |-> IF "raised" \in DOMAIN r THEN List(<<>>) ELSE r.content]

\* (mutant) the tool results are appended before the assistant message
AccumulateResultsFirst(msgs, resp, results) ==
    msgs \o << [role |-> "user", content |-> List(results)],
               [role |-> "assistant", content |-> resp.content] >>

AccumulateMessages(msgs, resp, results) ==
    msgs \o << [role |-> "assistant", content |-> resp.content],
               [role |-> "user", content |-> List(results)] >>

NoResponse == [stop_reason |-> "none", content |-> List(<<>>)]
NoOutcome == [kind |-> "none"]
NoArgs == Args("", PyNone, PyNone, PyNone)

----------------------------------------------------------------------------
(* The Search Backend, the tools and the Tool Registry *)

MAX_HISTORY == 2

\* registration order
RegisteredTools == <<"search_course_content", "get_course_outline">>
IsRegistered(name) == \E i \in DOMAIN RegisteredTools : RegisteredTools[i] = name
get_tool_definitions == List(ToolDefs)

NoSources == [n \in {RegisteredTools[i] : i \in DOMAIN RegisteredTools} |-> <<>>]

Passage(doc, title, lesson) ==
    [document |-> doc, metadata |-> [course_title |-> title, lesson_number |-> lesson]]
P1 == Passage("Lesson content about RAG systems.", "Intro to RAG", 1)
P2 == Passage("More content about embeddings.", "Intro to RAG", 2)
P3 == Passage("What MCP is.", "MCP Course", 0)     \* 0: no lesson number
Passages == {P1, P2, P3}

\* SearchResults: parallel documents / metadata, or an error; or the backend raises
Found(ps) == [documents |-> [i \in DOMAIN ps |-> ps[i].document],
              metadata |-> [i \in DOMAIN ps |-> ps[i].metadata],
              error |-> PyNone]
EmptyResult == Found(<<>>)
ErrorResult == [documents |-> <<>>, metadata |-> <<>>,
                error |-> Str(<<"Search error: n_results must be a positive integer">>)]
BackendRaises == [raises |-> "index error"]

\* get_lesson_link: the link of a lesson, when the store has one
get_lesson_link(title, lesson) ==
    IF title = "Intro to RAG" /\ lesson = 1
    THEN Str(<<"https://example.com/lesson1">>)
    ELSE PyNone

HasLesson(meta) == meta.lesson_number # 0

SourceOf(meta) ==
    [title |-> meta.course_title,
     lesson_number |-> IF HasLesson(meta) THEN meta.lesson_number ELSE 0,
     url |-> IF HasLesson(meta)
             THEN get_lesson_link(meta.course_title, meta.lesson_number)
             ELSE PyNone]

\* (mutant) the sources are built from the passages in reverse order
SourcesReversed(res) ==
    [i \in DOMAIN res.metadata |-> SourceOf(res.metadata[Len(res.metadata) + 1 - i])]

SourcesOf(res) == [i \in DOMAIN res.metadata |-> SourceOf(res.metadata[i])]

\* one labelled block: "[title - Lesson n]\ndocument"
FormatBlock(doc, meta) ==
    <<"[", meta.course_title>>
    \o (IF HasLesson(meta) THEN <<" - Lesson ", ToString(meta.lesson_number)>> ELSE <<>>)
    \o <<"]", "\n", doc>>

RECURSIVE JoinBlocks(_, _)
JoinBlocks(res, i) ==
    IF i > Len(res.documents) THEN <<>>
    ELSE (IF i > 1 THEN <<"\n\n">> ELSE <<>>)
         \o FormatBlock(res.documents[i], res.metadata[i])
         \o JoinBlocks(res, i + 1)

\* (mutant) only the course filter is described
FilterInfoCourseOnly(input) ==
    IF "course_name" \in DOMAIN input
    THEN <<" in course '", input.course_name, "'">> ELSE <<>>

FilterInfo(input) ==
    (IF "course_name" \in DOMAIN input
     THEN <<" in course '", input.course_name, "'">> ELSE <<>>)
    \o (IF "lesson_number" \in DOMAIN input
        THEN <<" in lesson ", ToString(input.lesson_number)>> ELSE <<>>)

\* Tool.execute against a backend that answered res: the text it returns
execute(input, res) ==
    IF "raises" \in DOMAIN res
    THEN [kind |-> "raise", msg |-> res.raises]
    ELSE IF res.error # PyNone
    THEN [kind |-> "return", value |-> res.error]
    ELSE IF res.documents = <<>>
    THEN [kind |-> "return",
          value |-> Str(<<"No relevant content found">> \o FilterInfo(input) \o <<".">>)]
    ELSE [kind |-> "return", value |-> Str(JoinBlocks(res, 1))]

\* (mutant) a successful search appends its sources to those already held
SourcesAppended(prev, res) ==
    IF "raises" \notin DOMAIN res /\ res.error = PyNone /\ res.documents # <<>>
    THEN prev \o SourcesOf(res)
    ELSE prev

\* Tool.execute: the sources the tool holds afterwards
SourcesRecorded(prev, res) ==
    IF "raises" \notin DOMAIN res /\ res.error = PyNone /\ res.documents # <<>>
    THEN SourcesOf(res)
    ELSE prev

\* ToolManager.execute_tool: NotFound when no tool has that name
execute_tool(name, input, res) ==
    IF IsRegistered(name)
    THEN execute(input, res)
    ELSE [kind |-> "raise", msg |-> "Tool not found"]

SourcesAfter(ls, name, res) ==
    IF IsRegistered(name)
    THEN [ls EXCEPT ![name] = SourcesRecorded(@, res)]
    ELSE ls

\* one execute_tool call as the registry saw it: the tool, its input, the
\* backend's answer, what the call gave back, and every tool's recorded
\* sources before and after it
Execution(name, input, res, ls) ==
    [name |-> name, input |-> input, res |-> res,
     out |-> execute_tool(name, input, res),
     before |-> ls, after |-> SourcesAfter(ls, name, res)]

\* ToolManager.get_last_sources: every tool's sources, in registration order
\* (mutant) only the first tool that holds sources is collected
CollectFirstHolder(ls, i) ==
    LET holders == { k \in i..Len(RegisteredTools) : ls[RegisteredTools[k]] # <<>> }
    IN  IF holders = {} THEN <<>>
        ELSE ls[RegisteredTools[CHOOSE k \in holders : \A m \in holders : k <= m]]

RECURSIVE CollectFrom(_, _)
CollectFrom(ls, i) ==
    IF i > Len(RegisteredTools) THEN <<>>
    ELSE ls[RegisteredTools[i]] \o CollectFrom(ls, i + 1)

get_last_sources(ls) == CollectFrom(ls, 1)

\* (mutant) reset_sources leaves every tool's sources as they are
ResetNothing(ls) == ls

\* ToolManager.reset_sources
reset_sources(ls) == [n \in DOMAIN ls |-> <<>>]

----------------------------------------------------------------------------
(* The Session Store *)

SessionIds == {Str(<<"session-abc">>)}

RECURSIVE FormatExchanges(_, _)
FormatExchanges(exs, i) ==
    IF i > Len(exs) THEN <<>>
    ELSE (IF i > 1 THEN <<"\n">> ELSE <<>>)
         \o <<"User: ", exs[i].question, "\nAssistant: ">> \o exs[i].answer.s
         \o FormatExchanges(exs, i + 1)

get_conversation_history(ss, sid) ==
    IF ss[sid] = <<>> THEN PyNone ELSE Str(FormatExchanges(ss[sid], 1))

\* (mutant) the history is never fetched
HistoryNever(ss, session_id) == PyNone

HistoryFor(ss, session_id) ==
    IF session_id # PyNone THEN get_conversation_history(ss, session_id) ELSE PyNone

LastN(xs, n) == IF Len(xs) <= n THEN xs ELSE SubSeq(xs, Len(xs) - n + 1, Len(xs))

\* (mutant) the exchange is stored with the question in place of the answer
AddQuestionOnly(ss, sid, question, answer) ==
    [ss EXCEPT ![sid] = LastN(Append(@, [question |-> question,
                                           answer |-> Str(<<question>>)]),
                              MAX_HISTORY)]

add_exchange(ss, sid, question, answer) ==
    [ss EXCEPT ![sid] = LastN(Append(@, [question |-> question, answer |-> answer]),
                              MAX_HISTORY)]

----------------------------------------------------------------------------
(* What the coordinator's callers, endpoint and backend are drawn from *)

QueryArgs(q, sid) == [query |-> q, session_id |-> sid]
NoQuery == QueryArgs("", PyNone)

Queries == { QueryArgs(q, sid) : q \in {"q1", "q2"}, sid \in {PyNone} \cup SessionIds }

QueryReplies ==
    { [stop_reason |-> sr, content |-> List(c)] :
        sr \in {"end_turn", "tool_use"},
        c \in { <<TextBlock("a1")>>, <<SearchUse>>, <<OutlineUse>>, <<UnknownUse>> } }
    \cup {EndpointError}

BackendResults ==
    { ErrorResult, EmptyResult, BackendRaises, Found(<<P1>>), Found(<<P2, P1>>) }

ConcQueries == { QueryArgs("q1", PyNone), QueryArgs("q2", PyNone) }
ConcReplies ==
    { [stop_reason |-> "end_turn", content |-> List(<<TextBlock("a1")>>)],
      [stop_reason |-> "tool_use", content |-> List(<<SearchUse>>)],
      EndpointError }
ConcBackendResults == { Found(<<P1>>), Found(<<P2>>) }

\* what a direct caller of the registry dispatches, and what the backend answers
ToolCalls ==
    { [name |-> b.name, input |-> b.input] :
        b \in {SearchUse, SearchInCourse, SearchInLesson, SearchInBoth, OutlineUse,
               UnknownUse} }
ToolBackendResults ==
    { ErrorResult, EmptyResult, BackendRaises, Found(<<P1>>), Found(<<P2, P1>>),
      Found(<<P3>>), Found(<<P1, P2, P3>>) }

----------------------------------------------------------------------------
(* The state machine *)

Init ==
    /\ base_params = BaseParams
    /\ pc = [p \in Procs |-> "idle"]
    /\ args = [p \in Procs |-> NoArgs]
    /\ system_content = [p \in Procs |-> SYSTEM_PROMPT]
    /\ messages = [p \in Procs |-> <<>>]
    /\ api_params = [p \in Procs |-> BaseParams]
    /\ round = [p \in Procs |-> 0]
    /\ response = [p \in Procs |-> NoResponse]
    /\ blockIdx = [p \in Procs |-> 0]
    /\ tool_results = [p \in Procs |-> <<>>]
    /\ outcome = [p \in Procs |-> NoOutcome]
    /\ calls = [p \in Procs |-> <<>>]
    /\ dispatched = [p \in Procs |-> <<>>]
    /\ started = [p \in Procs |-> 0]
    /\ last_sources = NoSources
    /\ sessions = [sid \in SessionIds |-> <<>>]
    /\ qpc = [p \in Procs |-> "idle"]
    /\ qargs = [p \in Procs |-> NoQuery]
    /\ qanswer = [p \in Procs |-> PyNone]
    /\ qsources = [p \in Procs |-> <<>>]
    /\ qresult = [p \in Procs |-> NoOutcome]
    /\ recorded = [p \in Procs |-> NoSources]
    /\ executed = [p \in Procs |-> <<>>]
    /\ qcalls = [p \in Procs |-> <<>>]
    /\ api = [p \in Procs |-> <<>>]

\* Lines 62-81: compose the system content, the messages and the parameters.
Compose(p, a) ==
    /\ args' = [args EXCEPT ![p] = a]
    /\ system_content' = [system_content EXCEPT ![p] = SystemContent(a.conversation_history)]
    /\ messages' = [messages EXCEPT ![p] = InitialMessages(a.query)]
    /\ api_params' = [api_params EXCEPT ![p] =
                        ApiParams(base_params, InitialMessages(a.query),
                                  SystemContent(a.conversation_history), a.tools)]
    /\ round' = [round EXCEPT ![p] = 0]
    /\ response' = [response EXCEPT ![p] = NoResponse]
    /\ blockIdx' = [blockIdx EXCEPT ![p] = 0]
    /\ tool_results' = [tool_results EXCEPT ![p] = <<>>]
    /\ outcome' = [outcome EXCEPT ![p] = NoOutcome]
    /\ calls' = [calls EXCEPT ![p] = <<>>]
    /\ dispatched' = [dispatched EXCEPT ![p] = <<>>]
    /\ pc' = [pc EXCEPT ![p] = IF LoopRange # {} THEN "create" ELSE "final"]

\* The call is over: its frame (every local) is discarded.
DropFrame(p) ==
    /\ pc' = [pc EXCEPT ![p] = "idle"]
    /\ args' = [args EXCEPT ![p] = NoArgs]
    /\ system_content' = [system_content EXCEPT ![p] = SYSTEM_PROMPT]
    /\ messages' = [messages EXCEPT ![p] = <<>>]
    /\ api_params' = [api_params EXCEPT ![p] = BaseParams]
    /\ round' = [round EXCEPT ![p] = 0]
    /\ response' = [response EXCEPT ![p] = NoResponse]
    /\ blockIdx' = [blockIdx EXCEPT ![p] = 0]
    /\ tool_results' = [tool_results EXCEPT ![p] = <<>>]
    /\ outcome' = [outcome EXCEPT ![p] = NoOutcome]
    /\ calls' = [calls EXCEPT ![p] = <<>>]
    /\ dispatched' = [dispatched EXCEPT ![p] = <<>>]

\* A direct call of generate_response, as the unit tests make it.
Begin(p) ==
    /\ pc[p] = "idle"
    /\ qpc[p] = "idle"
    /\ started[p] < MaxRuns
    /\ \E a \in DirectArgs : Compose(p, a)
    /\ started' = [started EXCEPT ![p] = @ + 1]
    /\ UNCHANGED <<base_params, api, regVars, queryVars>>

Return(p) ==
    /\ pc[p] = "done"
    /\ qpc[p] = "idle"
    /\ DropFrame(p)
    /\ UNCHANGED <<base_params, api, started, regVars, queryVars>>

\* (mutant) a failed endpoint call is swallowed and the call is made again
EndpointRetried(p, r) ==
    /\ outcome' = outcome
    /\ pc' = pc

\* The exception of client.messages.create is not caught: it ends the run.
EndpointRaised(p, r) ==
    /\ outcome' = [outcome EXCEPT ![p] =
                     [kind |-> "raised", exc |-> r.raised, from |-> "endpoint"]]
    /\ pc' = [pc EXCEPT ![p] = "done"]

\* Line 84-88: one endpoint call inside the loop, and the branch on its response.
\* R is what the endpoint may answer.
Create(p, R) ==
    /\ pc[p] = "create"
    /\ \E r \in R :
         /\ calls' = [calls EXCEPT ![p] = Append(@, CallEntry(api_params[p], r))]
         /\ IF r = EndpointError
            THEN /\ EndpointRaised(p, r)
                 /\ UNCHANGED <<response, blockIdx, tool_results>>
            ELSE /\ response' = [response EXCEPT ![p] = r]
                 /\ IF ShouldReturn(r, args[p].tool_manager)
                    THEN /\ outcome' = [outcome EXCEPT ![p] = ExtractText(r)]
                         /\ pc' = [pc EXCEPT ![p] = "done"]
                         /\ UNCHANGED <<blockIdx, tool_results>>
                    ELSE /\ pc' = [pc EXCEPT ![p] = "dispatch"]
                         /\ blockIdx' = [blockIdx EXCEPT ![p] = 1]
                         /\ tool_results' = [tool_results EXCEPT ![p] = <<>>]
                         /\ UNCHANGED outcome
    /\ UNCHANGED <<base_params, api, args, system_content, messages, api_params, round,
                   dispatched, started, regVars, queryVars>>

\* (mutant) a failing execute_tool ends the block loop: its siblings are left out
AnswerBlockBreaks(p, block, out) ==
    LET c == CatchResult(out) IN
    /\ dispatched' = [dispatched EXCEPT ![p] =
          Append(@, [name |-> block.name, input |-> block.input, id |-> block.id,
                     raised |-> out.kind = "raise", after |-> Len(calls[p])])]
    /\ tool_results' = [tool_results EXCEPT ![p] =
          AppendResult(@, ToolResultBlock(block, c.result))]
    /\ blockIdx' = [blockIdx EXCEPT ![p] =
          IF out.kind = "raise" THEN Len(response[p].content.items) + 1 ELSE @ + 1]
    /\ UNCHANGED <<pc, outcome>>

\* Lines 93-102: the tool_use block at blockIdx was executed with outcome `out`.
AnswerBlock(p, block, out) ==
    LET c == CatchResult(out) IN
    /\ dispatched' = [dispatched EXCEPT ![p] =
          Append(@, [name |-> block.name, input |-> block.input, id |-> block.id,
                     raised |-> out.kind = "raise", after |-> Len(calls[p])])]
    /\ IF c.caught
       THEN /\ tool_results' = [tool_results EXCEPT ![p] =
                  AppendResult(@, ToolResultBlock(block, c.result))]
            /\ blockIdx' = [blockIdx EXCEPT ![p] = @ + 1]
            /\ UNCHANGED <<pc, outcome>>
       ELSE /\ outcome' = [outcome EXCEPT ![p] =
                  [kind |-> "raised", exc |-> out.msg, from |-> "tool"]]
            /\ pc' = [pc EXCEPT ![p] = "done"]
            /\ UNCHANGED <<tool_results, blockIdx>>

\* (mutant) the block loop does not move past a block that is no tool_use block
SkipBlockStays(p) ==
    /\ blockIdx' = blockIdx
    /\ UNCHANGED <<pc, outcome, tool_results, dispatched>>

\* Lines 92-93: a block that is no tool_use block is passed over.
SkipBlock(p) ==
    /\ blockIdx' = [blockIdx EXCEPT ![p] = @ + 1]
    /\ UNCHANGED <<pc, outcome, tool_results, dispatched>>

\* Lines 92-102: one iteration of `for block in response.content` with a
\* MagicMock tool manager.
DispatchMock(p) ==
    /\ pc[p] = "dispatch"
    /\ args[p].tool_manager = MockManager
    /\ blockIdx[p] <= Len(response[p].content.items)
    /\ LET block == response[p].content.items[blockIdx[p]] IN
         IF IsToolUse(block)
         THEN \E out \in MockOutcomes : AnswerBlock(p, block, out)
         ELSE SkipBlock(p)
    /\ UNCHANGED <<base_params, api, args, system_content, messages, api_params, round,
                   response, calls, started, regVars, queryVars>>

\* Lines 92-102, with the Tool Registry as the tool manager: the tool runs
\* against the Search Backend, whose answer is drawn from B, and records its
\* sources in the registry.
DispatchRegistry(p, B) ==
    /\ pc[p] = "dispatch"
    /\ args[p].tool_manager = Registry
    /\ blockIdx[p] <= Len(response[p].content.items)
    /\ LET block == response[p].content.items[blockIdx[p]] IN
         IF IsToolUse(block)
         THEN \E res \in B :
                /\ AnswerBlock(p, block, execute_tool(block.name, block.input, res))
                /\ last_sources' = SourcesAfter(last_sources, block.name, res)
                /\ recorded' = [recorded EXCEPT ![p] = SourcesAfter(@, block.name, res)]
                /\ executed' = [executed EXCEPT ![p] =
                      Append(@, Execution(block.name, block.input, res, last_sources))]
         ELSE /\ SkipBlock(p)
              /\ UNCHANGED <<last_sources, recorded, executed>>
    /\ UNCHANGED <<base_params, api, args, system_content, messages, api_params, round,
                   response, calls, started, sessions, qpc, qargs, qanswer, qsources,
                   qresult, qcalls>>

\* Lines 105-107, and the loop's next iteration or its exhaustion.
Accumulate(p) ==
    /\ pc[p] = "dispatch"
    /\ blockIdx[p] > Len(response[p].content.items)
    /\ LET msgs == AccumulateMessages(messages[p], response[p], tool_results[p]) IN
         /\ messages' = [messages EXCEPT ![p] = msgs]
         /\ api_params' = [api_params EXCEPT ![p] = NextParams(@, msgs)]
    /\ round' = [round EXCEPT ![p] = @ + 1]
    /\ pc' = [pc EXCEPT ![p] = IF round[p] + 1 \in LoopRange THEN "create" ELSE "final"]
    /\ UNCHANGED <<base_params, api, args, system_content, response, blockIdx, tool_results,
                   outcome, calls, dispatched, started, regVars, queryVars>>

\* (mutant) line 116 reads `response`, the response of the last round, where
\* it should read `final_response`
FinalCreateReturnsRoundText(p, R) ==
    /\ pc[p] = "final"
    /\ LET req == FinalParams(base_params, messages[p], system_content[p], api_params[p]) IN
       \E r \in R :
         /\ calls' = [calls EXCEPT ![p] = Append(@, CallEntry(req, r))]
         /\ IF r = EndpointError
            THEN /\ EndpointRaised(p, r)
                 /\ UNCHANGED response
            ELSE /\ response' = [response EXCEPT ![p] = r]
                 /\ outcome' = [outcome EXCEPT ![p] = ExtractText(response[p])]
                 /\ pc' = [pc EXCEPT ![p] = "done"]
    /\ UNCHANGED <<base_params, api, args, system_content, messages, api_params, round,
                   blockIdx, tool_results, dispatched, started, regVars, queryVars>>

\* Lines 109-116: the forced final call, without tools.
FinalCreate(p, R) ==
    /\ pc[p] = "final"
    /\ LET req == FinalParams(base_params, messages[p], system_content[p], api_params[p]) IN
       \E r \in R :
         /\ calls' = [calls EXCEPT ![p] = Append(@, CallEntry(req, r))]
         /\ IF r = EndpointError
            THEN /\ EndpointRaised(p, r)
                 /\ UNCHANGED response
            ELSE /\ response' = [response EXCEPT ![p] = r]
                 /\ outcome' = [outcome EXCEPT ![p] = ExtractText(r)]
                 /\ pc' = [pc EXCEPT ![p] = "done"]
    /\ UNCHANGED <<base_params, api, args, system_content, messages, api_params, round,
                   blockIdx, tool_results, dispatched, started, regVars, queryVars>>

----------------------------------------------------------------------------
(* The Query Coordinator: query(question, session id) *)

\* Steps 1-2: fetch the history of the session, if one is given, and call
\* the Orchestrator with the tool descriptors and the registry.
QueryStart(p, Q) ==
    /\ qpc[p] = "idle"
    /\ pc[p] = "idle"
    /\ started[p] < MaxRuns
    /\ \E qa \in Q :
         /\ qargs' = [qargs EXCEPT ![p] = qa]
         /\ Compose(p, Args(qa.query, HistoryFor(sessions, qa.session_id),
                            get_tool_definitions, Registry))
    /\ qpc' = [qpc EXCEPT ![p] = "generating"]
    /\ qanswer' = [qanswer EXCEPT ![p] = PyNone]
    /\ qsources' = [qsources EXCEPT ![p] = <<>>]
    /\ qresult' = [qresult EXCEPT ![p] = NoOutcome]
    /\ recorded' = [recorded EXCEPT ![p] = NoSources]
    /\ executed' = [executed EXCEPT ![p] = <<>>]
    /\ qcalls' = [qcalls EXCEPT ![p] =
                    (IF qargs'[p].session_id # PyNone
                     THEN <<"get_conversation_history">> ELSE <<>>)
                    \o <<"get_tool_definitions", "generate_response">>]
    /\ started' = [started EXCEPT ![p] = @ + 1]
    /\ UNCHANGED <<base_params, api, regVars>>

\* (mutant) the failure is saved to the session as if it were the answer
QueryRaisedSaved(p) ==
    /\ qpc[p] = "generating"
    /\ pc[p] = "done"
    /\ outcome[p].kind = "raised"
    /\ qresult' = [qresult EXCEPT ![p] = outcome[p]]
    /\ qpc' = [qpc EXCEPT ![p] = "over"]
    /\ DropFrame(p)
    /\ executed' = [executed EXCEPT ![p] = <<>>]
    /\ sessions' = IF qargs[p].session_id # PyNone
                   THEN add_exchange(sessions, qargs[p].session_id, qargs[p].query,
                                     Str(<<outcome[p].exc>>))
                   ELSE sessions
    /\ UNCHANGED <<base_params, api, started, last_sources, qargs, qanswer, qsources,
                   recorded, qcalls>>

\* The Orchestrator raised: the failure propagates unrecovered to the caller.
QueryRaised(p) ==
    /\ qpc[p] = "generating"
    /\ pc[p] = "done"
    /\ outcome[p].kind = "raised"
    /\ qresult' = [qresult EXCEPT ![p] = outcome[p]]
    /\ qpc' = [qpc EXCEPT ![p] = "over"]
    /\ DropFrame(p)
    /\ executed' = [executed EXCEPT ![p] = <<>>]
    /\ UNCHANGED <<base_params, api, started, regVars, qargs, qanswer, qsources, recorded,
                   qcalls>>

\* The Orchestrator returned its answer.
QueryAnswered(p) ==
    /\ qpc[p] = "generating"
    /\ pc[p] = "done"
    /\ outcome[p].kind = "returned"
    /\ qanswer' = [qanswer EXCEPT ![p] = outcome[p].value]
    /\ qpc' = [qpc EXCEPT ![p] = "collect"]
    /\ DropFrame(p)
    /\ executed' = [executed EXCEPT ![p] = <<>>]
    /\ UNCHANGED <<base_params, api, started, regVars, qargs, qsources, qresult, recorded,
                   qcalls>>

\* Step 3, first half: collect the sources from the Tool Registry.
QueryCollect(p) ==
    /\ qpc[p] = "collect"
    /\ qsources' = [qsources EXCEPT ![p] = get_last_sources(last_sources)]
    /\ qpc' = [qpc EXCEPT ![p] = "reset"]
    /\ qcalls' = [qcalls EXCEPT ![p] = Append(@, "get_last_sources")]
    /\ UNCHANGED <<base_params, api, genVars, regVars, qargs, qanswer, qresult, recorded,
                   executed>>

\* Step 3, second half: clear them.
QueryReset(p) ==
    /\ qpc[p] = "reset"
    /\ last_sources' = reset_sources(last_sources)
    /\ qpc' = [qpc EXCEPT ![p] = "save"]
    /\ qcalls' = [qcalls EXCEPT ![p] = Append(@, "reset_sources")]
    /\ UNCHANGED <<base_params, api, genVars, sessions, qargs, qanswer, qsources, qresult,
                   recorded, executed>>

\* Steps 4-5: persist the exchange when a session id was given, and return.
QuerySave(p) ==
    /\ qpc[p] = "save"
    /\ sessions' = IF qargs[p].session_id # PyNone
                   THEN add_exchange(sessions, qargs[p].session_id, qargs[p].query,
                                     qanswer[p])
                   ELSE sessions
    /\ qresult' = [qresult EXCEPT ![p] =
                     [kind |-> "returned", answer |-> qanswer[p], sources |-> qsources[p]]]
    /\ qcalls' = [qcalls EXCEPT ![p] =
                    IF qargs[p].session_id # PyNone THEN Append(@, "add_exchange") ELSE @]
    /\ qpc' = [qpc EXCEPT ![p] = "over"]
    /\ UNCHANGED <<base_params, api, genVars, last_sources, qargs, qanswer, qsources, recorded,
                   executed>>

\* The caller has its result; the coordinator is free for the next query.
QueryOver(p) ==
    /\ qpc[p] = "over"
    /\ qpc' = [qpc EXCEPT ![p] = "idle"]
    /\ UNCHANGED <<base_params, api, genVars, regVars, qargs, qanswer, qsources, qresult,
                   recorded, executed, qcalls>>

----------------------------------------------------------------------------
(* One generator, called again and again by one caller *)

Next ==
    \/ Begin("A")
    \/ Create("A", Replies)
    \/ DispatchMock("A")
    \/ Accumulate("A")
    \/ FinalCreate("A", Replies)
    \/ Return("A")

Spec == Init /\ [][Next]_vars

\* generate_response is straight-line Python: once called, its next statement
\* runs whenever it can (an endpoint call or a tool dispatch returns or
\* raises). The caller is under no obligation to call again.
Fairness ==
    /\ WF_vars(Create("A", Replies))
    /\ WF_vars(DispatchMock("A"))
    /\ WF_vars(Accumulate("A"))
    /\ WF_vars(FinalCreate("A", Replies))

SpecFair == Init /\ [][Next]_vars /\ Fairness

(* One generator, called by two callers at once *)

\* each caller asks its own question, with the tools and a tool manager
SharedArgs(p) == Args(IF p = "A" THEN "q1" ELSE "q2", PyNone, List(ToolDefs), MockManager)

SharedReplies ==
    { [stop_reason |-> "end_turn", content |-> List(<<TextBlock("a1")>>)],
      [stop_reason |-> "tool_use",
       content |-> List(<<TextBlock("Let me search."), SearchUse>>)],
      [stop_reason |-> "tool_use", content |-> List(<<OutlineUse>>)],
      EndpointError }

BeginShared(p) ==
    /\ pc[p] = "idle"
    /\ qpc[p] = "idle"
    /\ started[p] < MaxRuns
    /\ Compose(p, SharedArgs(p))
    /\ started' = [started EXCEPT ![p] = @ + 1]
    /\ UNCHANGED <<base_params, api, regVars, queryVars>>

NextShared ==
    \E p \in Procs :
        \/ BeginShared(p)
        \/ Create(p, SharedReplies)
        \/ DispatchMock(p)
        \/ Accumulate(p)
        \/ FinalCreate(p, SharedReplies)
        \/ Return(p)

SpecShared == Init /\ [][NextShared]_vars

(* One coordinator, running one query after another *)

NextQuery ==
    \/ QueryStart("A", Queries)
    \/ Create("A", QueryReplies)
    \/ DispatchRegistry("A", BackendResults)
    \/ Accumulate("A")
    \/ FinalCreate("A", QueryReplies)
    \/ QueryRaised("A")
    \/ QueryAnswered("A")
    \/ QueryCollect("A")
    \/ QueryReset("A")
    \/ QuerySave("A")
    \/ QueryOver("A")

SpecQuery == Init /\ [][NextQuery]_vars

(* One coordinator and one registry shared by two queries in flight *)

NextConc ==
    \E p \in Procs :
        \/ QueryStart(p, ConcQueries)
        \/ Create(p, ConcReplies)
        \/ DispatchRegistry(p, ConcBackendResults)
        \/ Accumulate(p)
        \/ FinalCreate(p, ConcReplies)
        \/ QueryRaised(p)
        \/ QueryAnswered(p)
        \/ QueryCollect(p)
        \/ QueryReset(p)
        \/ QuerySave(p)
        \/ QueryOver(p)

SpecConc == Init /\ [][NextConc]_vars

(* The registry and its tools, called directly *)

\* tool_manager.execute_tool(name, **input) against a backend that answers
\* one of B
ToolExecute(p, U, B) ==
    /\ qpc[p] = "idle"
    /\ pc[p] = "idle"
    /\ Len(executed[p]) < MaxExecs
    /\ \E u \in U, res \in B :
         /\ last_sources' = SourcesAfter(last_sources, u.name, res)
         /\ executed' = [executed EXCEPT ![p] =
                           Append(@, Execution(u.name, u.input, res, last_sources))]
    /\ UNCHANGED <<base_params, api, genVars, sessions, qpc, qargs, qanswer, qsources,
                   qresult, recorded, qcalls>>

\* tool_manager.get_last_sources() followed by tool_manager.reset_sources()
ToolCollectAndReset(p) ==
    /\ qpc[p] = "idle"
    /\ pc[p] = "idle"
    /\ executed[p] # <<>>
    /\ qsources' = [qsources EXCEPT ![p] = get_last_sources(last_sources)]
    /\ last_sources' = reset_sources(last_sources)
    /\ executed' = [executed EXCEPT ![p] = <<>>]
    /\ UNCHANGED <<base_params, api, genVars, sessions, qpc, qargs, qanswer, qresult,
                   recorded, qcalls>>

NextTool ==
    \/ ToolExecute("A", ToolCalls, ToolBackendResults)
    \/ ToolCollectAndReset("A")

SpecTool == Init /\ [][NextTool]_vars

----------------------------------------------------------------------------
(* The caller-facing query endpoint, POST /api/query, over a stubbed query() *)

\* the request bodies a client sends
ApiRequests ==
    { [query |-> q, session_id |-> sid] :
        q \in {"What is RAG?", "Follow-up?"},
        sid \in {PyNone, Str(<<"existing-session-xyz">>), Str(<<"session-abc">>)} }

\* what the stubbed rag_system.query gives: (answer, sources), or it raises
StubQueryOutcomes ==
    { [kind |-> "return", answer |-> Str(<<"Answer">>), sources |-> <<>>],
      [kind |-> "return", answer |-> Str(<<"Answer with source.">>),
       sources |-> <<[title |-> "RAG Course", lesson_number |-> 1,
                      url |-> Str(<<"https://example.com/lesson1">>)]>>],
      [kind |-> "raise", msg |-> "DB connection failed"] }

\* SessionManager.create_session: the id of the n-th session created
create_session(n) == Str(<<"session_", ToString(n)>>)

\* (mutant) the endpoint creates a session for every request
SessionAlwaysCreated(session_id, fresh) == [id |-> fresh, created |-> <<fresh>>]

\* the session the endpoint uses: the one the request names, or a new one
SessionForRequest(session_id, fresh) ==
    IF session_id = PyNone
    THEN [id |-> fresh, created |-> <<fresh>>]
    ELSE [id |-> session_id, created |-> <<>>]

\* the response body, or the HTTP 500 the handler turns an exception into
ApiResponse(out, session_id) ==
    IF out.kind = "return"
    THEN [status |-> 200, answer |-> out.answer, sources |-> out.sources,
          session_id |-> session_id]
    ELSE [status |-> 500, detail |-> out.msg]

\* the sessions the store created so far (those with a generated id)
CreatedSessions(ss) == { sid \in DOMAIN ss : sid.s[1] = "session_" }

\* One request handled: a session is created when the request names none,
\* query(question, session id) is called, and its result is the response.
QueryEndpoint(p, Reqs, Outs) ==
    /\ pc[p] = "idle"
    /\ qpc[p] = "idle"
    /\ Len(api[p]) < MaxRequests
    /\ \E req \in Reqs, out \in Outs :
         LET fresh == create_session(Cardinality(CreatedSessions(sessions)) + 1)
             sess == SessionForRequest(req.session_id, fresh)
         IN  /\ sessions' = [sid \in DOMAIN sessions \cup Elems(sess.created) |->
                                IF sid \in DOMAIN sessions THEN sessions[sid] ELSE <<>>]
             /\ api' = [api EXCEPT ![p] =
                           Append(@, [request |-> req,
                                      created |-> sess.created,
                                      forwarded |-> <<req.query, sess.id>>,
                                      response |-> ApiResponse(out, sess.id)])]
    /\ UNCHANGED <<base_params, genVars, last_sources, queryVars>>

NextApi == QueryEndpoint("A", ApiRequests, StubQueryOutcomes)

SpecApi == Init /\ [][NextApi]_vars

----------------------------------------------------------------------------
(* Properties of generate_response *)

Done(p) == pc[p] = "done"
NumCalls(p) == Len(calls[p])
Roles(msgs) == [i \in DOMAIN msgs |-> msgs[i].role]
ToolUses(content) == SelectSeq(content.items, LAMBDA b : b.type = "tool_use")
IsToolResults(msg) ==
    /\ msg.role = "user"
    /\ msg.content.py = "list"
    /\ \A i \in DOMAIN msg.content.items : msg.content.items[i].type = "tool_result"
HasTools(req) == "tools" \in DOMAIN req \/ "tool_choice" \in DOMAIN req

\* C1: every run of generate_response makes 1, 2 or 3 endpoint calls, never
\* more than MAX_ROUNDS + 1; no state of a run has seen more.
C1_CallCountBounded ==
    \A p \in Procs :
        /\ NumCalls(p) <= MAX_ROUNDS + 1
        /\ NumCalls(p) <= 3
        /\ Done(p) => NumCalls(p) \in {1, 2, 3}

\* C1 witness: a run that ended after three endpoint calls.
C1_Witness == Done("A") /\ NumCalls("A") = 3 /\ outcome["A"].kind = "returned"

BothRoundsAskedForTool(p) ==
    /\ NumCalls(p) >= 2
    /\ calls[p][1].stop = "tool_use"
    /\ calls[p][2].stop = "tool_use"

\* C2: when both tool-enabled rounds answered tool_use, a third call is made;
\* its request has neither tools nor tool_choice, and its messages are exactly
\* user, assistant, user (tool results), assistant, user (tool results).
C2_ForcedFinalCall ==
    \A p \in Procs :
        (Done(p) /\ BothRoundsAskedForTool(p)) =>
            /\ NumCalls(p) = 3
            /\ LET req == calls[p][3].request IN
                 /\ ~HasTools(req)
                 /\ Len(req.messages) = 5
                 /\ Roles(req.messages) = <<"user", "assistant", "user", "assistant", "user">>
                 /\ IsToolResults(req.messages[3])
                 /\ IsToolResults(req.messages[5])

\* C2 witness: the forced final call of a run that was given a tool set.
C2_Witness ==
    /\ Done("A") /\ BothRoundsAskedForTool("A") /\ NumCalls("A") = 3
    /\ Truthy(args["A"].tools)
    /\ HasTools(calls["A"][2].request)

\* C3: with a tool set supplied, every call made inside the round loop, the
\* one of round 1 included, carries the same tool descriptors and
\* tool_choice auto.
C3_ToolsKeptInLoop ==
    \A p \in Procs :
        \A i \in DOMAIN calls[p] :
            (Truthy(args[p].tools) /\ i <= MAX_ROUNDS) =>
                /\ "tools" \in DOMAIN calls[p][i].request
                /\ "tool_choice" \in DOMAIN calls[p][i].request
                /\ calls[p][i].request.tools = args[p].tools
                /\ calls[p][i].request.tool_choice = [type |-> "auto"]

\* C3 witness: round 0 answered tool_use and the call of round 1 was made.
C3_Witness ==
    /\ NumCalls("A") = 2
    /\ calls["A"][1].stop = "tool_use"
    /\ Truthy(args["A"].tools)
    /\ Len(dispatched["A"]) >= 1

\* C4: if the first response's stop indicator is not tool_use, the run makes
\* exactly one endpoint call, dispatches no tool, and returns.
C4_SingleCallReturns ==
    \A p \in Procs :
        (NumCalls(p) >= 1 /\ calls[p][1].stop \notin {"tool_use", "raised"}) =>
            /\ Done(p)
            /\ NumCalls(p) = 1
            /\ dispatched[p] = <<>>
            /\ outcome[p].kind = "returned"

\* C5: in every tool-results message the i-th result carries the id of the
\* i-th tool_use block of the assistant message before it, one result per
\* tool_use block.
C5_ResultsMatchInvocations ==
    \A p \in Procs :
        \A i \in DOMAIN messages[p] :
            messages[p][i].role = "assistant" =>
                /\ i + 1 \in DOMAIN messages[p]
                /\ IsToolResults(messages[p][i + 1])
                /\ LET uses == ToolUses(messages[p][i].content)
                       results == messages[p][i + 1].content.items
                   IN  /\ Len(results) = Len(uses)
                       /\ \A j \in DOMAIN uses : results[j].tool_use_id = uses[j].id

\* C5 witness: the second round answered two invocations with different ids.
C5_Witness ==
    /\ Len(messages["A"]) = 5
    /\ Len(messages["A"][5].content.items) = 2
    /\ messages["A"][5].content.items[1].tool_use_id
         # messages["A"][5].content.items[2].tool_use_id

FailureMarker == "Tool execution error: "

\* the tool_use blocks answered so far in the running round, or all of them
\* once the round's messages were appended
ResultFor(p, d) ==
    LET k == d.after
        done == IF 2 * k + 1 <= Len(messages[p])
                THEN messages[p][2 * k + 1].content.items
                ELSE tool_results[p]
    IN  { done[j] : j \in { j \in DOMAIN done : done[j].tool_use_id = d.id } }

\* C6: a failing tool dispatch, in either round, never ends the run: its
\* tool_result block holds text with the failure marker, the next endpoint
\* call follows, and what the run returns is a string.
C6_ToolFailureContained ==
    \A p \in Procs :
        /\ outcome[p].kind = "raised" => outcome[p].from # "tool"
        /\ outcome[p].kind = "returned" => outcome[p].value.py = "str"
        /\ \A i \in DOMAIN dispatched[p] :
             LET d == dispatched[p][i] IN
             d.raised =>
                /\ \E b \in ResultFor(p, d) :
                      b.content.py = "str" /\ Contains(b.content, FailureMarker)
                /\ Done(p) => NumCalls(p) > d.after

\* C6 witness: a run that returned although a dispatch of its second round failed.
C6_Witness ==
    /\ Done("A") /\ outcome["A"].kind = "returned"
    /\ \E i \in DOMAIN dispatched["A"] :
          dispatched["A"][i].raised /\ dispatched["A"][i].after = 2

\* C7: a run raises only if an endpoint call failed: when every endpoint call
\* returned a response, the run returns an answer text.
C7_RaisesOnlyOnEndpointFailure ==
    \A p \in Procs :
        (Done(p) /\ \A i \in DOMAIN calls[p] : ~calls[p][i].failed) =>
            outcome[p].kind = "returned"

\* C8: a failed endpoint call ends the run at once: it is the last call (no
\* retry, no further call), the run's outcome is that failure, and every
\* dispatch of the run happened before it.
C8_EndpointFailureIsTerminal ==
    \A p \in Procs :
        \A i \in DOMAIN calls[p] :
            calls[p][i].failed =>
                /\ i = NumCalls(p)
                /\ Done(p)
                /\ outcome[p] = [kind |-> "raised", exc |-> "APIError", from |-> "endpoint"]
                /\ \A j \in DOMAIN dispatched[p] : dispatched[p][j].after < i

\* C8 witness: the second endpoint call failed after a tool was dispatched.
C8_Witness ==
    /\ NumCalls("A") = 2 /\ calls["A"][2].failed
    /\ Len(dispatched["A"]) >= 1

----------------------------------------------------------------------------
(* Properties of the coordinator's source bookkeeping *)

\* C9: for queries run one after another on one coordinator, no returned
\* source was recorded during an earlier query: every source a query returns
\* was recorded by a tool execution of that same query, so a query that used
\* no tool returns no source.
C9_NoStaleSources ==
    \A p \in Procs :
        qresult[p].kind = "returned" =>
            Elems(qresult[p].sources) \subseteq Elems(get_last_sources(recorded[p]))

\* C10: with queries in flight concurrently, each query returns exactly the
\* sources its own tool executions recorded.
C10_OwnSourcesOnly ==
    \A p \in Procs :
        qresult[p].kind = "returned" =>
            qresult[p].sources = get_last_sources(recorded[p])

----------------------------------------------------------------------------
(* Properties of the coordinator's steps *)

RegistryEmpty == \A n \in DOMAIN last_sources : last_sources[n] = <<>>

\* the calls of a query that touch the Orchestrator or the registry's sources
SourceCalls(p) ==
    SelectSeq(qcalls[p],
              LAMBDA c : c \in {"generate_response", "get_last_sources", "reset_sources"})

\* C11: a completed query has called the Orchestrator, then collect_sources
\* once, then clear_sources once; collection happens only after the
\* Orchestrator returned and takes what the registry holds; the query returns
\* the Orchestrator's answer and the collected sources as they are; and
\* when the next query starts after a completed one the registry is empty.
C11_CollectThenClearOnce ==
    /\ [](\A p \in Procs :
            /\ qresult[p].kind = "returned" =>
                  /\ SourceCalls(p) =
                        <<"generate_response", "get_last_sources", "reset_sources">>
                  /\ qresult[p].answer = qanswer[p]
                  /\ qresult[p].sources = qsources[p]
            /\ (qpc[p] \in {"over", "idle"} /\ qresult[p].kind = "returned") =>
                  RegistryEmpty)
    /\ [][\A p \in Procs :
            /\ (qpc[p] = "generating" /\ qpc'[p] = "collect") =>
                  /\ pc[p] = "done" /\ outcome[p].kind = "returned"
                  /\ qanswer'[p] = outcome[p].value
                  /\ SourceCalls(p) = <<"generate_response">>
            /\ (qpc[p] = "collect" /\ qpc'[p] = "reset") =>
                  qsources'[p] = get_last_sources(last_sources)
            /\ (qpc[p] = "idle" /\ qpc'[p] = "generating"
                  /\ qresult[p].kind = "returned") => RegistryEmpty]_vars

\* C11 witness: a query that used a tool has completed with the sources it
\* collected, and the next query can start.
C11_Witness ==
    /\ qpc["A"] = "idle" /\ qresult["A"].kind = "returned"
    /\ qresult["A"].sources # <<>>
    /\ started["A"] < MaxRuns

----------------------------------------------------------------------------
(* Properties of the content-search tool *)

ContentSearch == "search_course_content"

\* the backend answered with passages: no exception, no error
IsSuccess(res) == "raises" \notin DOMAIN res /\ res.error = PyNone /\ res.documents # <<>>
IsError(res) == "raises" \notin DOMAIN res /\ res.error # PyNone
IsEmpty(res) == "raises" \notin DOMAIN res /\ res.error = PyNone /\ res.documents = <<>>

Pick(text, S) == SelectSeq(text.s, LAMBDA x : x \in S)
Count(text, piece) == Len(Pick(text, {piece}))
OthersEmpty(ls, name) == \A n \in DOMAIN ls \ {name} : ls[n] = <<>>

C13_ErrorLeavesNoSources ==
    \A p \in Procs : \A n \in DOMAIN executed[p] :
        LET e == executed[p][n] IN
        (e.name = ContentSearch /\ IsError(e.res)) =>
            /\ e.out = [kind |-> "return", value |-> e.res.error]
            /\ get_last_sources(e.after) = <<>>

NoContent == "No relevant content found"

\* C14: when the backend finds no passage and reports no error, the content
\* search returns the fixed "No relevant content found" message, extended
\* with the course name when a course filter was given and with the lesson
\* number when a lesson filter was given (with nothing when neither was), and
\* records no source: the tool's sources are what they were, so a tool with
\* empty sources before the call has empty sources after it.
C14_EmptyResultMessage ==
    \A p \in Procs : \A n \in DOMAIN executed[p] :
        LET e == executed[p][n]
            hasCourse == "course_name" \in DOMAIN e.input
            hasLesson == "lesson_number" \in DOMAIN e.input
        IN  (e.name = ContentSearch /\ IsEmpty(e.res)) =>
              /\ e.out.kind = "return"
              /\ e.out.value.py = "str"
              /\ e.out.value.s[1] = NoContent
              /\ hasCourse => Contains(e.out.value, e.input.course_name)
              /\ hasLesson => Contains(e.out.value, ToString(e.input.lesson_number))
              /\ (~hasCourse /\ ~hasLesson) => e.out.value = Str(<<NoContent, ".">>)
              /\ e.after = e.before
              /\ e.before[ContentSearch] = <<>> => e.after[ContentSearch] = <<>>

\* C14 witness: an empty result for a search with both filters, by a tool
\* that held no sources.
C14_Witness ==
    \E n \in DOMAIN executed["A"] :
        LET e == executed["A"][n] IN
        /\ e.name = ContentSearch /\ e.res = EmptyResult
        /\ e.input = SearchInBoth.input
        /\ e.before[ContentSearch] = <<>>
        /\ last_sources[ContentSearch] = <<>>

\* C15: a successful content search replaces what the tool had recorded: after
\* two successful content searches within one query, of k1 and then k2
\* passages, the tool holds exactly the k2 sources of the later search, in
\* passage order, and none carried over from the earlier one.
C15_LaterSearchReplaces ==
    \A p \in Procs : \A i, j \in DOMAIN executed[p] :
        LET first == executed[p][i]
            later == executed[p][j]
        IN  (i < j /\ first.name = ContentSearch /\ IsSuccess(first.res)
                   /\ later.name = ContentSearch /\ IsSuccess(later.res)) =>
              /\ later.before[ContentSearch] # <<>>
              /\ Len(later.after[ContentSearch]) = Len(later.res.documents)
              /\ later.after[ContentSearch] = SourcesOf(later.res)

\* C15 witness: within one query a search of two passages was followed by a
\* search of one, and the tool holds one source.
C15_Witness ==
    /\ qpc["A"] = "generating"
    /\ Len(executed["A"]) = 2
    /\ executed["A"][1].name = ContentSearch /\ executed["A"][1].res = Found(<<P2, P1>>)
    /\ executed["A"][2].name = ContentSearch /\ executed["A"][2].res = Found(<<P1>>)
    /\ Len(last_sources[ContentSearch]) = 1

----------------------------------------------------------------------------
(* Properties of collection, history and persistence *)

\* C16: what a query collects is the content-search tool's sources followed
\* by the outline tool's sources (the registration order), each tool's in
\* the order the tool recorded them; when both tools hold sources the
\* sources of both are in the result.
C16_CollectInRegistrationOrder ==
    \A p \in Procs :
        qpc[p] = "reset" =>
            /\ qsources[p] = last_sources["search_course_content"]
                               \o last_sources["get_course_outline"]
            /\ \A n \in DOMAIN last_sources :
                  Elems(last_sources[n]) \subseteq Elems(qsources[p])
            /\ Len(qsources[p]) = Len(last_sources["search_course_content"])
                                    + Len(last_sources["get_course_outline"])

\* C16 witness: a query collected while both tools held sources, not the same.
C16_Witness ==
    /\ qpc["A"] = "reset"
    /\ last_sources["search_course_content"] # <<>>
    /\ last_sources["get_course_outline"] # <<>>
    /\ last_sources["search_course_content"] # last_sources["get_course_outline"]

\* C17: while a query's Orchestrator runs, the conversation history it was
\* given is None when the query has no session id, and is what the session
\* store gives for the query's session id, as it is, when it has one.
C17_HistoryForwarded ==
    \A p \in Procs :
        (qpc[p] = "generating" /\ pc[p] # "idle") =>
            IF qargs[p].session_id = PyNone
            THEN args[p].conversation_history = PyNone
            ELSE args[p].conversation_history
                    = get_conversation_history(sessions, qargs[p].session_id)

\* C17 witness: a query of a session that already holds an exchange.
C17_Witness ==
    /\ qpc["A"] = "generating" /\ pc["A"] # "idle"
    /\ qargs["A"].session_id # PyNone
    /\ sessions[qargs["A"].session_id] # <<>>
    /\ args["A"].conversation_history # PyNone

Saves(p) == SelectSeq(qcalls[p], LAMBDA c : c = "add_exchange")

\* C18: the step that completes a query with a session id appends one
\* exchange, the query's question with the answer the Orchestrator returned,
\* to that session (the oldest exchange leaves when the session is full) and
\* touches no other session; no other step of a query changes any session,
\* so nothing is appended before the Orchestrator returned nor by a query
\* without a session id; and no step creates a session.
C18_ExchangeAppendedOnce ==
    /\ [](\A p \in Procs :
            qresult[p].kind = "returned" =>
              /\ Len(Saves(p)) = IF qargs[p].session_id # PyNone THEN 1 ELSE 0
              /\ qargs[p].session_id # PyNone =>
                    qcalls[p][Len(qcalls[p])] = "add_exchange")
    /\ [][/\ DOMAIN sessions' = DOMAIN sessions
          /\ \A p \in Procs :
               IF qpc[p] = "save" /\ qpc'[p] = "over" /\ qargs[p].session_id # PyNone
               THEN LET sid == qargs[p].session_id
                        old == sessions[sid]
                        new == sessions'[sid]
                        kept == Len(new) - 1
                    IN  /\ new # <<>>
                        /\ new[Len(new)] = [question |-> qargs[p].query,
                                            answer |-> qanswer[p]]
                        /\ qresult'[p].answer = qanswer[p]
                        /\ Len(new) = IF Len(old) < MAX_HISTORY
                                      THEN Len(old) + 1 ELSE MAX_HISTORY
                        /\ SubSeq(new, 1, kept) = SubSeq(old, Len(old) - kept + 1, Len(old))
                        /\ \A other \in DOMAIN sessions \ {sid} :
                               sessions'[other] = sessions[other]
               ELSE (\A q \in Procs \ {p} : ~(qpc[q] = "save" /\ qpc'[q] = "over"))
                        => sessions' = sessions]_vars

\* C18 witness: a query with a session id has completed and its exchange is
\* the last one of the session.
C18_Witness ==
    /\ qpc["A"] = "over" /\ qresult["A"].kind = "returned"
    /\ qargs["A"].session_id # PyNone
    /\ sessions[qargs["A"].session_id] # <<>>
    /\ LET exs == sessions[qargs["A"].session_id]
       IN  exs[Len(exs)] = [question |-> qargs["A"].query, answer |-> qresult["A"].answer]

----------------------------------------------------------------------------
(* Properties of the requests generate_response composes *)

StartsWith(text, prefix) ==
    /\ Len(text.s) >= Len(prefix.s)
    /\ SubSeq(text.s, 1, Len(prefix.s)) = prefix.s
EndsWith(text, suffix) ==
    /\ Len(text.s) >= Len(suffix.s)
    /\ SubSeq(text.s, Len(text.s) - Len(suffix.s) + 1, Len(text.s)) = suffix.s

\* C19: the system text of every endpoint request of a run, the forced final
\* one included, is the same; without a conversation history it is exactly
\* SYSTEM_PROMPT; with one it begins with SYSTEM_PROMPT and ends with the
\* history as it was given, the two not overlapping.
C19_SystemContext ==
    \A p \in Procs : \A i \in DOMAIN calls[p] :
        LET sys == calls[p][i].request.system
            history == args[p].conversation_history
        IN  /\ sys.py = "str"
            /\ sys = calls[p][1].request.system
            /\ IF history = PyNone
               THEN sys = SYSTEM_PROMPT
               ELSE /\ StartsWith(sys, SYSTEM_PROMPT)
                    /\ EndsWith(sys, history)
                    /\ Len(sys.s) >= Len(SYSTEM_PROMPT.s) + Len(history.s)

\* C19 witness: the forced final call of a run that was given a history.
C19_Witness ==
    /\ NumCalls("A") = 3
    /\ args["A"].conversation_history = Str(<<"User: Hi\nAssistant: Hello!">>)
    /\ calls["A"][3].request.system # SYSTEM_PROMPT

\* C20: the first endpoint request of a run carries the tool descriptors it
\* was given and tool_choice auto when a tool set was given, and has neither
\* a tools nor a tool_choice parameter when none was (None, or no tool at
\* all).
C20_FirstRequestTools ==
    \A p \in Procs :
        NumCalls(p) >= 1 =>
            LET req == calls[p][1].request
                tools == args[p].tools
                supplied == tools # PyNone /\ tools.items # <<>>
            IN  IF supplied
                THEN /\ "tools" \in DOMAIN req /\ "tool_choice" \in DOMAIN req
                     /\ req.tools = tools
                     /\ req.tool_choice = [type |-> "auto"]
                ELSE "tools" \notin DOMAIN req /\ "tool_choice" \notin DOMAIN req

\* C20 witness: the first request of a run that was given tools but no tool
\* manager.
C20_Witness ==
    /\ NumCalls("A") = 1
    /\ args["A"].tools = List(ToolDefs)
    /\ args["A"].tool_manager = PyNone
    /\ "tools" \in DOMAIN calls["A"][1].request

----------------------------------------------------------------------------
(* Properties of the query endpoint *)

\* C21: for every request the query endpoint handled: a session was created
\* exactly when the request named none, and then exactly one, which the
\* session store holds; a request that names a session created none; the id
\* used (the one named, or the one created) was forwarded to query together
\* with the question, and is the session id of the response.
C21_SessionCreatedIffAbsent ==
    \A p \in Procs : \A n \in DOMAIN api[p] :
        LET e == api[p][n]
            named == e.request.session_id
        IN  /\ Len(e.created) = IF named = PyNone THEN 1 ELSE 0
            /\ Elems(e.created) \subseteq DOMAIN sessions
            /\ e.forwarded[1] = e.request.query
            /\ named # PyNone => e.forwarded[2] = named
            /\ named = PyNone => e.forwarded[2] = e.created[1]
            /\ e.response.status = 200 => e.response.session_id = e.forwarded[2]
            /\ Cardinality(CreatedSessions(sessions))
                  = Cardinality({ m \in DOMAIN api[p] : api[p][m].request.session_id = PyNone })

\* C21 witness: a request without session id and one with a session id were
\* both answered.
C21_Witness ==
    /\ Len(api["A"]) = 2
    /\ api["A"][1].request.session_id = PyNone
    /\ api["A"][2].request.session_id = Str(<<"existing-session-xyz">>)
    /\ api["A"][1].response.status = 200
    /\ api["A"][2].response.status = 200

----------------------------------------------------------------------------
(* Properties of the dispatches and messages of one run *)

\* what was dispatched after the k-th endpoint call, as (name, input, id)
DispatchedAfter(p, k) ==
    LET ds == SelectSeq(dispatched[p], LAMBDA d : d.after = k)
    IN  [i \in DOMAIN ds |-> [name |-> ds[i].name, input |-> ds[i].input, id |-> ds[i].id]]

\* the tool invocations of a response content, as (name, input, id)
Invocations(content) ==
    LET us == ToolUses(content)
    IN  [i \in DOMAIN us |-> [name |-> us[i].name, input |-> us[i].input, id |-> us[i].id]]

\* the k-th endpoint call answered tool_use and the run has a tool manager
RoundRequestedTools(p, k) ==
    /\ k \in DOMAIN calls[p]
    /\ calls[p][k].stop = "tool_use"
    /\ Truthy(args[p].tool_manager)

\* C22: once the round of the k-th endpoint call is over (its messages were
\* appended), what was dispatched in it is exactly the tool invocations of
\* that call's response, each once, with the block's name and input; this
\* holds for the last round as for the first, so a run whose two rounds ask
\* for one tool each has dispatched twice when the forced final call is made.
C22_EveryInvocationDispatchedOnce ==
    \A p \in Procs :
        /\ \A k \in 1..MAX_ROUNDS :
              (RoundRequestedTools(p, k) /\ Len(messages[p]) >= 2 * k + 1) =>
                  DispatchedAfter(p, k) = Invocations(messages[p][2 * k].content)
        /\ \A i \in DOMAIN dispatched[p] :
              RoundRequestedTools(p, dispatched[p][i].after)
        /\ NumCalls(p) = MAX_ROUNDS + 1 =>
              \A k \in 1..MAX_ROUNDS :
                  /\ Len(messages[p]) >= 2 * k + 1
                  /\ Len(DispatchedAfter(p, k)) = Len(ToolUses(messages[p][2 * k].content))

\* C22 witness: both rounds asked for one tool each, and the forced final
\* call was made after the second dispatch.
C22_Witness ==
    /\ NumCalls("A") = 3
    /\ Len(dispatched["A"]) = 2
    /\ dispatched["A"][1].after = 1 /\ dispatched["A"][2].after = 2
    /\ dispatched["A"][1].name # dispatched["A"][2].name

\* C23: the messages of the i-th endpoint request of a run: the first is the
\* user message with the question; roles alternate user, assistant, ...,
\* user; there are 1 + 2(i-1) of them, i-1 being the tool rounds completed;
\* and for i > 1 they are the messages of request i-1, unaltered, followed
\* by an assistant message holding the content of response i-1 as it was
\* and a user message of tool results.
C23_MessagesGrowByRound ==
    \A p \in Procs : \A i \in DOMAIN calls[p] :
        LET m == calls[p][i].request.messages
            n == Len(m)
        IN  /\ n = 1 + 2 * (i - 1)
            /\ m[1] = [role |-> "user", content |-> Str(<<args[p].query>>)]
            /\ \A j \in DOMAIN m :
                  m[j].role = IF j % 2 = 1 THEN "user" ELSE "assistant"
            /\ m[n].role = "user"
            /\ i > 1 =>
                  /\ SubSeq(m, 1, n - 2) = calls[p][i - 1].request.messages
                  /\ m[n - 1] = [role |-> "assistant",
                                 content |-> calls[p][i - 1].content]
                  /\ IsToolResults(m[n])

\* C23 witness: the third request of a run, with five messages.
C23_Witness ==
    /\ NumCalls("A") = 3
    /\ Len(calls["A"][3].request.messages) = 5
    /\ calls["A"][1].content # calls["A"][2].content

\* the tool rounds completed: each appended two messages to the first one
RoundsCompleted(p) == (Len(messages[p]) - 1) \div 2

\* C24: every dispatch is answered to the model: the endpoint call that
\* follows its round is made (whether or not it then fails) and the last
\* message of its request holds the tool_result of that dispatch; until
\* that call is made the round is still running. Each completed round is
\* followed by one call, no more: a finished run has made one call more
\* than it completed rounds, and none of its dispatches came after its last
\* call.
C24_ResultsSentBack ==
    \A p \in Procs :
        /\ \A i \in DOMAIN dispatched[p] :
              LET d == dispatched[p][i]
                  k == d.after
              IN  IF k < NumCalls(p)
                  THEN LET m == calls[p][k + 1].request.messages
                       IN  /\ Len(m) = 2 * k + 1
                           /\ IsToolResults(m[Len(m)])
                           /\ \E j \in DOMAIN m[Len(m)].content.items :
                                 m[Len(m)].content.items[j].tool_use_id = d.id
                  ELSE /\ k = NumCalls(p)
                       /\ pc[p] \in {"dispatch", "create", "final"}
        /\ Done(p) =>
              /\ NumCalls(p) = RoundsCompleted(p) + 1
              /\ \A i \in DOMAIN dispatched[p] : dispatched[p][i].after < NumCalls(p)
        /\ pc[p] \in {"create", "final"} => NumCalls(p) = RoundsCompleted(p)

\* C24 witness: a finished run of two rounds, one of them with two
\* invocations, whose results all went back to the model.
C24_Witness ==
    /\ Done("A") /\ NumCalls("A") = 3
    /\ Len(dispatched["A"]) = 3
    /\ outcome["A"].kind = "returned"

\* a call of generate_response is under way
Running(p) == pc[p] \in {"create", "dispatch", "final"}

\* C25: a call of generate_response that is under way eventually returns an
\* answer or raises, whatever the endpoint and the tools answer, the model
\* asking for a tool in every response included.
C25_Terminates == \A p \in Procs : Running(p) ~> Done(p)

\* C25 witness: a run is over in which every response, the forced final one
\* included, asked for a tool.
C25_Witness ==
    /\ Done("A") /\ NumCalls("A") = MAX_ROUNDS + 1
    /\ \A i \in DOMAIN calls["A"] :
          ~calls["A"][i].failed /\ calls["A"][i].stop = "tool_use"

\* the forced final call of a run was made and the endpoint answered it
FinalAnswered(p) ==
    /\ Done(p)
    /\ NumCalls(p) = MAX_ROUNDS + 1
    /\ ~calls[p][MAX_ROUNDS + 1].failed

\* C26: when the rounds are exhausted and the endpoint answers the forced
\* final call, the run returns (it does not raise) the text of that
\* response, whatever its stop indicator, and no tool is dispatched after
\* that call.
C26_FinalTextReturned ==
    \A p \in Procs :
        FinalAnswered(p) =>
            /\ outcome[p].kind = "returned"
            /\ outcome[p] = ExtractText(response[p])
            /\ response[p].content = calls[p][MAX_ROUNDS + 1].content
            /\ DispatchedAfter(p, MAX_ROUNDS + 1) = <<>>

\* the tool invocations among the blocks the running round has gone past
InvocationsPassed(p) ==
    Invocations(List(SubSeq(response[p].content.items, 1, blockIdx[p] - 1)))

\* C27: while a round runs, what it has dispatched so far is exactly the tool
\* invocations among the blocks it has gone past, in the order the response
\* holds them, and each of them, a failed one included, has its own
\* tool_result block at the same position; a step dispatches at most one
\* invocation, and after a failing dispatch the round goes on with a result
\* block more.
C27_SiblingsDispatchedInOrder ==
    /\ [](\A p \in Procs :
            pc[p] = "dispatch" =>
                LET ds == DispatchedAfter(p, NumCalls(p)) IN
                /\ ds = InvocationsPassed(p)
                /\ Len(tool_results[p]) = Len(ds)
                /\ \A j \in DOMAIN ds :
                      /\ tool_results[p][j].type = "tool_result"
                      /\ tool_results[p][j].tool_use_id = ds[j].id)
    /\ [][\A p \in Procs :
            /\ Len(dispatched'[p]) <= Len(dispatched[p]) + 1
            /\ (Len(dispatched'[p]) = Len(dispatched[p]) + 1
                 /\ dispatched'[p][Len(dispatched'[p])].raised) =>
                   /\ pc'[p] = "dispatch"
                   /\ Len(tool_results'[p]) = Len(tool_results[p]) + 1]_vars

\* C27 witness: the first invocation of a round failed and its sibling was
\* dispatched after it; both have their result block.
C27_Witness ==
    /\ pc["A"] = "dispatch"
    /\ Len(tool_results["A"]) = 2
    /\ LET n == Len(dispatched["A"]) IN
         /\ n >= 2
         /\ dispatched["A"][n - 1].raised
         /\ dispatched["A"][n - 1].after = dispatched["A"][n].after
         /\ Contains(tool_results["A"][1].content, FailureMarker)

\* the last query of p failed because an endpoint call failed, and the
\* coordinator is free for the next one
FailedFatally(p) ==
    /\ qpc[p] = "idle"
    /\ qresult[p].kind = "raised"
    /\ qresult[p].from = "endpoint"

\* C28: after a query that failed fatally (an endpoint call failed), also
\* one whose tool executions had recorded sources, the registry holds no
\* source in the state from which the next query starts.
C28_RegistryEmptyAfterFailure ==
    \A p \in Procs : FailedFatally(p) => RegistryEmpty

\* C29: a query whose Orchestrator raised has not called add_exchange, and
\* no step of it changed the session store: not its start, not a step of the
\* Orchestrator, not the step in which the failure reaches the caller, not
\* the caller taking it. The histories are those from before the query.
C29_FailedQueryAppendsNothing ==
    /\ [](\A p \in Procs : qresult[p].kind = "raised" => Saves(p) = <<>>)
    /\ [][\A p \in Procs :
            \/ qpc[p] = "generating"
            \/ qpc'[p] = "generating"
            \/ (qpc[p] = "over" /\ qresult[p].kind = "raised")
            => sessions' = sessions]_vars

\* C29 witness: a query on a session that already held an exchange has
\* failed because an endpoint call failed.
C29_Witness ==
    /\ qpc["A"] = "over"
    /\ qresult["A"].kind = "raised" /\ qresult["A"].from = "endpoint"
    /\ qargs["A"].session_id # PyNone
    /\ sessions[qargs["A"].session_id] # <<>>

\* C30: whatever runs came before on the same generator, the first endpoint
\* request of a run carries one message, the user message with that run's
\* question; the generator's base parameters stay what the constructor
\* stored (temperature 0 among them), and every request of every run is sent
\* with them.
C30_OneQueryPerMessageSequence ==
    /\ base_params = BaseParams
    /\ base_params.temperature = 0
    /\ \A p \in Procs :
          /\ calls[p] # <<>> =>
                calls[p][1].request.messages =
                    << [role |-> "user", content |-> Str(<<args[p].query>>)] >>
          /\ \A i \in DOMAIN calls[p] :
                \A k \in DOMAIN base_params :
                    calls[p][i].request[k] = base_params[k]

\* C30 witness: the second run on the generator has made its first call.
C30_Witness ==
    /\ started["A"] = 2
    /\ NumCalls("A") = 1
    /\ Len(calls["A"][1].request.messages) = 1

\* what the dispatches of p after its k-th call gave back, as tool_result blocks
OwnResults(p, k) ==
    LET ds == SelectSeq(dispatched[p], LAMBDA d : d.after = k)
    IN  [j \in DOMAIN ds |-> [id |-> ds[j].id, failed |-> ds[j].raised]]

\* C31: with two calls of generate_response under way on one generator, in
\* every interleaving the messages of each call are its own question, then
\* per completed round the content of the response that call received and
\* the results of the dispatches that call made, in their order; and no call
\* makes more than MAX_ROUNDS + 1 endpoint calls.
C31_CallsDoNotInterfere ==
    \A p \in Procs :
        /\ NumCalls(p) <= MAX_ROUNDS + 1
        /\ pc[p] # "idle" =>
              /\ messages[p] # <<>>
              /\ messages[p][1] = [role |-> "user", content |-> Str(<<args[p].query>>)]
              /\ Len(messages[p]) = 1 + 2 * RoundsCompleted(p)
              /\ \A k \in 1..RoundsCompleted(p) :
                    LET own == OwnResults(p, k)
                        sent == messages[p][2 * k + 1]
                    IN  /\ k \in DOMAIN calls[p]
                        /\ messages[p][2 * k] =
                              [role |-> "assistant", content |-> calls[p][k].content]
                        /\ IsToolResults(sent)
                        /\ Len(sent.content.items) = Len(own)
                        /\ \A j \in DOMAIN own :
                              /\ sent.content.items[j].tool_use_id = own[j].id
                              /\ own[j].failed <=>
                                    Contains(sent.content.items[j].content, FailureMarker)

\* C31 witness: two calls are under way at once, each past its first round,
\* with different questions and different responses received.
C31_Witness ==
    /\ Running("A") /\ Running("B")
    /\ Len(messages["A"]) >= 3 /\ Len(messages["B"]) >= 3
    /\ messages["A"][1] # messages["B"][1]
    /\ messages["A"][2] # messages["B"][2]

\* C32: a run that was given no tool manager makes one endpoint call, no
\* more, and dispatches nothing, whatever stop indicator the response has;
\* when the endpoint answered, what the run returns is the text of the first
\* content block of that response and of no other block.
C32_NoManagerSingleCall ==
    \A p \in Procs :
        (pc[p] # "idle" /\ ~Truthy(args[p].tool_manager)) =>
            /\ NumCalls(p) <= 1
            /\ dispatched[p] = <<>>
            /\ messages[p] = InitialMessages(args[p].query)
            /\ Done(p) =>
                  /\ NumCalls(p) = 1
                  /\ ~calls[p][1].failed =>
                        LET first == calls[p][1].content.items IN
                        /\ (first # <<>> /\ first[1].type = "text") =>
                              outcome[p] = [kind |-> "returned", value |-> first[1].text]
                        /\ outcome[p].kind = "returned" =>
                              /\ first # <<>>
                              /\ first[1].type = "text"
                              /\ outcome[p].value = first[1].text

\* C32 witness: without a tool manager, a response that asked for a tool
\* after a text block ended the run with that text.
C32_Witness ==
    /\ Done("A") /\ args["A"].tool_manager = PyNone
    /\ NumCalls("A") = 1
    /\ calls["A"][1].stop = "tool_use"
    /\ Len(ToolUses(calls["A"][1].content)) >= 1
    /\ outcome["A"].kind = "returned"

\* the k-th response of p ended the run: it is the first one that did not
\* ask for a tool (or the run has no tool manager), or the forced final one
IsTerminal(p, k) ==
    /\ k = NumCalls(p)
    /\ ~calls[p][k].failed
    /\ \/ k = MAX_ROUNDS + 1
       \/ calls[p][k].stop # "tool_use"
       \/ ~Truthy(args[p].tool_manager)
    /\ \A i \in 1..(k - 1) : ~calls[p][i].failed /\ calls[p][i].stop = "tool_use"

\* C33: the answer a run returns is the text of the first block of the last
\* endpoint response it received, which is the terminal one: the first
\* response in the loop that did not ask for a tool, or the forced final
\* response. It is so also when an earlier response or a tool result of the
\* run held another text.
C33_AnswerIsTerminalText ==
    \A p \in Procs :
        (Done(p) /\ outcome[p].kind = "returned") =>
            LET k == NumCalls(p) IN
            /\ k >= 1
            /\ IsTerminal(p, k)
            /\ calls[p][k].content.items # <<>>
            /\ calls[p][k].content.items[1].type = "text"
            /\ outcome[p].value = calls[p][k].content.items[1].text

\* C33 witness: a run returned after two rounds; the responses of both rounds
\* began with a text that is not the answer, and a tool gave its output.
C33_Witness ==
    /\ Done("A") /\ outcome["A"].kind = "returned"
    /\ NumCalls("A") = MAX_ROUNDS + 1
    /\ \A i \in 1..MAX_ROUNDS :
          /\ calls["A"][i].content.items[1].type = "text"
          /\ calls["A"][i].content.items[1].text # outcome["A"].value
    /\ \E i \in DOMAIN dispatched["A"] : ~dispatched["A"][i].raised

====
